---- MODULE Spec2Model ----
(***************************************************************************)
(* Model of the EV pooling service of main.go: the vehicle inventory       *)
(* (InMemoryVehicleRepository), the group ledger (InMemoryGroupRepository: *)
(* waiting queue and group -> car table), the matching engine              *)
(* (VehicleService) with its event bus, and the HTTP handlers registered   *)
(* in main(), each handler being one atomic operation of the sequential    *)
(* specification Spec.  SpecConc serves PUT /evs and POST /journey on      *)
(* concurrent workers, statement by statement; SpecBus drives the EventBus *)
(* alone with the listeners and payloads of the source; SpecRepo drives    *)
(* the group repository alone (no handler calls RemoveGroup).              *)
(***************************************************************************)
EXTENDS Integers, Sequences, FiniteSets, Bags, TLC

(* ------------------------------ bounds -------------------------------- *)
\* vehicle ids are 1..MaxVehicles and a fleet holds at most MaxVehicles cars
MaxVehicles == 2
\* a registered vehicle has 0..MaxSeats seats
MaxSeats == 2
\* group ids are 1..MaxGroups
MaxGroups == 2
\* the waiting queue is explored up to MaxQueue entries
MaxQueue == 2
\* at most MaxTasks listener goroutines are spawned and not yet run
MaxTasks == 1
\* the bus driven on its own takes at most MaxListeners Register calls
MaxListeners == 2
\* the bus driven on its own takes at most MaxEmits Emit calls
MaxEmits == 2
\* at most MaxInFlight requests are served at the same time
MaxInFlight == 2
\* the concurrent specification serves at most MaxRequests requests in a run
MaxRequests == 3

VehicleIDs == 1..MaxVehicles
SeatCounts == 0..MaxSeats
GroupIDs == 1..MaxGroups
\* group sizes: positive, up to the largest vehicle
PeopleCounts == 1..MaxSeats

(* ------------------------------ data ---------------------------------- *)
\* type Vehicle struct { ID int; Seats int }
Vehicle(id, seats) == [ID |-> id, Seats |-> seats]

\* type Group struct { ID int; People int }
Group(id, people) == [ID |-> id, People |-> people]

\* Group{}: the zero value FindGroup returns when nothing is found
ZeroGroup == Group(0, 0)

\* make(map[int]int): the empty group -> car table
EmptyMap == [g \in {} |-> 0]

\* m[k] = v on a Go map
MapPut(m, k, v) == [x \in (DOMAIN m) \cup {k} |-> IF x = k THEN v ELSE m[x]]

\* delete(m, k) on a Go map
MapDelete(m, k) == [x \in (DOMAIN m) \ {k} |-> m[x]]

\* the payloads PUT /evs is driven with: lists of vehicles with pairwise
\* distinct ids (the data model's fleets), in any registration order
Fleets ==
  {f \in UNION {[1..n -> [ID : VehicleIDs, Seats : SeatCounts]] : n \in 0..MaxVehicles} :
     \A i, j \in DOMAIN f : f[i].ID = f[j].ID => i = j}

\* the payloads POST /journey is driven with
Groups == [ID : GroupIDs, People : PeopleCounts]

VARIABLES
  vehicles,     \* InMemoryVehicleRepository.vehicles
  groupsQueue,  \* InMemoryGroupRepository.groupsQueue
  groupToCar,   \* InMemoryGroupRepository.groupToCar
  tasks,        \* listener goroutines spawned by Emit and not yet run (a bag)
  registered,   \* history: the list given to the last SaveVehicles
  seated,       \* history: people count of the journey that created each assignment
  last,         \* history: the last request and its response
  eb_listeners, \* EventBus.listeners of a bus driven on its own
  goroutines,   \* that bus: handler goroutines spawned by Emit and not yet run
  handled,      \* that bus, history: the handler calls made, in order
  emissions,    \* that bus, history: the events given to Emit, in order
  crashed,      \* that bus: an unrecovered panic has terminated the process
  inflight,     \* concurrent requests: the position and locals of each worker
  started       \* concurrent requests: number of requests started so far

\* the state of the bus driven on its own
busVars == <<eb_listeners, goroutines, handled, emissions, crashed>>

\* the state of the requests served concurrently
concVars == <<inflight, started>>

vars == <<vehicles, groupsQueue, groupToCar, tasks, registered, seated, last,
          busVars, concVars>>

\* the record kept of one request/response; pre is the inventory the request found
Response(op, id, people, status, car, pre) ==
  [op |-> op, id |-> id, people |-> people, status |-> status, car |-> car, pre |-> pre]

(* --------------------------- event bus -------------------------------- *)
\* NewEventBus: no listener registered under any event type
NewEventBus == [t \in {} |-> <<>>]

\* EventBus.Register on the listeners map ls
Register(ls, eventType, listener) ==
  [t \in (DOMAIN ls) \cup {eventType} |->
     IF t = eventType
       THEN (IF t \in DOMAIN ls THEN Append(ls[t], listener) ELSE <<listener>>)
       ELSE ls[t]]

\* EventBus.Emit on the listeners map ls: one goroutine per listener registered
\* under the event's type, none when the type has no entry
Spawn(ls, event) ==
  IF event.Type \in DOMAIN ls
    THEN {[slot |-> i, handler |-> ls[event.Type][i], event |-> event] :
            i \in DOMAIN ls[event.Type]}
    ELSE {}

\* Data of the event AssignVehicleToGroup emits
AssignedData(groupID, vehicleID) == [group_id |-> groupID, vehicle_id |-> vehicleID]

\* Data of the event the journey handler of setupRouter emits
StartedData(groupID, carID) == [group_id |-> groupID, car_id |-> carID]

\* data[key].(int) without the ok result: panics when the key is missing
AssertInt(data, key) == IF key \in DOMAIN data THEN "int" ELSE "panic"

\* the listener main() registers: its type assertions are unchecked
logAssigned(data) ==
  IF AssertInt(data, "group_id") = "panic" \/ AssertInt(data, "vehicle_id") = "panic"
    THEN "panic"
    ELSE "logged"

\* the listener setupRouter registers: it tests every assertion and returns
logChecked(data) ==
  IF "group_id" \in DOMAIN data /\ "vehicle_id" \in DOMAIN data
    THEN "logged"
    ELSE "missing"

\* handler(event) for the two listeners of the source
Handle(handler, event) ==
  IF handler = "logAssigned" THEN logAssigned(event.Data) ELSE logChecked(event.Data)

\* main(): eventBus.Register("VehicleAssigned", <logging listener>)
listeners == [VehicleAssigned |-> <<"logAssigned">>]

\* EventBus.Emit: one goroutine per listener registered for the event's type
Emit(event) ==
  IF event.Type \in DOMAIN listeners
    THEN LET hs == listeners[event.Type]
             n(t) == Cardinality({i \in DOMAIN hs : hs[i] = t.handler})
         IN  [t \in {[handler |-> hs[i], event |-> event] : i \in DOMAIN hs} |-> n(t)]
    ELSE EmptyBag

(* ------------------------- vehicle repository ------------------------- *)
\* index of the first vehicle with that id, 0 when there is none
IndexOfVehicle(vs, vehicleID) ==
  IF \E i \in DOMAIN vs : vs[i].ID = vehicleID
    THEN CHOOSE i \in DOMAIN vs :
           /\ vs[i].ID = vehicleID
           /\ \A j \in DOMAIN vs : vs[j].ID = vehicleID => i <= j
    ELSE 0

\* InMemoryVehicleRepository.UpdateVehicleSeats: absolute set, first match, no-op if absent
UpdateVehicleSeats(vs, vehicleID, seats) ==
  LET i == IndexOfVehicle(vs, vehicleID)
  IN  IF i = 0 THEN vs ELSE [vs EXCEPT ![i].Seats = seats]

(* --------------------------- group repository ------------------------- *)
\* InMemoryGroupRepository.FindGroup: first queued group with that id, else Group{}
FindGroup(queue, groupID) ==
  IF \E i \in DOMAIN queue : queue[i].ID = groupID
    THEN LET i == CHOOSE k \in DOMAIN queue :
                    /\ queue[k].ID = groupID
                    /\ \A j \in DOMAIN queue : queue[j].ID = groupID => k <= j
         IN  [group |-> queue[i], found |-> TRUE]
    ELSE [group |-> ZeroGroup, found |-> FALSE]

\* InMemoryGroupRepository.AddGroup
AddGroup(queue, group) == Append(queue, group)

\* InMemoryGroupRepository.RemoveGroup: the first queued group with that id is cut
\* out and true returned; if none is queued the id is deleted from the table
RemoveGroup(queue, table, groupID) ==
  IF FindGroup(queue, groupID).found
    THEN LET i == CHOOSE k \in DOMAIN queue :
                    /\ queue[k].ID = groupID
                    /\ \A j \in DOMAIN queue : queue[j].ID = groupID => k <= j
         IN  [queue |-> SubSeq(queue, 1, i - 1) \o SubSeq(queue, i + 1, Len(queue)),
              table |-> table, removed |-> TRUE]
    ELSE [queue |-> queue, table |-> MapDelete(table, groupID), removed |-> FALSE]

\* InMemoryGroupRepository.GetNextWaitingGroup
GetNextWaitingGroup(queue) ==
  IF Len(queue) > 0
    THEN [group |-> queue[1], found |-> TRUE]
    ELSE [group |-> ZeroGroup, found |-> FALSE]

(* --------------------------- vehicle service -------------------------- *)
\* FirstFit with the scan keeping the last hit instead of returning at the first
FirstFit_LastHit(vs, people) ==
  IF \E i \in DOMAIN vs : vs[i].Seats >= people
    THEN CHOOSE i \in DOMAIN vs :
           /\ vs[i].Seats >= people
           /\ \A j \in DOMAIN vs : vs[j].Seats >= people => j <= i
    ELSE 0

\* index of the first vehicle, in registration order, with Seats >= people; 0 if none
FirstFit(vs, people) ==
  IF \E i \in DOMAIN vs : vs[i].Seats >= people
    THEN CHOOSE i \in DOMAIN vs :
           /\ vs[i].Seats >= people
           /\ \A j \in DOMAIN vs : vs[j].Seats >= people => i <= j
    ELSE 0

\* VehicleService.AssignVehicleToGroup: the result, the inventory it leaves and
\* the goroutines its Emit spawns
AssignVehicleToGroup(vs, group) ==
  LET i == FirstFit(vs, group.People)
  IN  IF i # 0
        THEN [carID |-> vs[i].ID, assigned |-> TRUE,
              vehicles |-> UpdateVehicleSeats(vs, vs[i].ID, vs[i].Seats - group.People),
              spawned |-> Emit([Type |-> "VehicleAssigned",
                                group_id |-> group.ID, vehicle_id |-> vs[i].ID])]
        ELSE [carID |-> 0, assigned |-> FALSE, vehicles |-> vs, spawned |-> EmptyBag]

\* VehicleService.ReleaseVehicleSeats
ReleaseVehicleSeats(vs, vehicleID, seats) == UpdateVehicleSeats(vs, vehicleID, seats)

(* ------------------------------ handlers ------------------------------ *)
\* the goroutines gin serves requests on
Workers == 1..MaxInFlight

\* a worker that serves no request
IdleWorker ==
  [pc |-> "idle", group |-> ZeroGroup, fleet |-> <<>>, alias |-> FALSE,
   view |-> <<>>, i |-> 0, carID |-> 0, seats |-> 0]

Init ==
  /\ vehicles = <<>>
  /\ groupsQueue = <<>>
  /\ groupToCar = EmptyMap
  /\ tasks = EmptyBag
  /\ registered = <<>>
  /\ seated = EmptyMap
  /\ last = Response("start", 0, 0, 0, 0, <<>>)
  /\ eb_listeners = NewEventBus
  /\ goroutines = {}
  /\ handled = <<>>
  /\ emissions = <<>>
  /\ crashed = FALSE
  /\ inflight = [w \in Workers |-> IdleWorker]
  /\ started = 0

\* GET /status
Status ==
  /\ last' = Response("status", 0, 0, 200, 0, <<>>)
  /\ UNCHANGED <<vehicles, groupsQueue, groupToCar, tasks, registered, seated, busVars, concVars>>

\* any endpoint, body that ShouldBindJSON rejects: 400 and nothing else
InvalidPayload(op) ==
  /\ last' = Response(op, 0, 0, 400, 0, <<>>)
  /\ UNCHANGED <<vehicles, groupsQueue, groupToCar, tasks, registered, seated, busVars, concVars>>

\* RegisterFleet with the reset of the waiting queue forgotten
RegisterFleet_KeepsQueue(newVehicles) ==
  /\ vehicles' = newVehicles
  /\ groupToCar' = EmptyMap
  /\ registered' = newVehicles
  /\ seated' = EmptyMap
  /\ last' = Response("evs", 0, 0, 200, 0, <<>>)
  /\ UNCHANGED <<groupsQueue, tasks, busVars, concVars>>

\* PUT /evs
RegisterFleet(newVehicles) ==
  /\ vehicles' = newVehicles
  /\ groupsQueue' = <<>>
  /\ groupToCar' = EmptyMap
  /\ registered' = newVehicles
  /\ seated' = EmptyMap
  /\ last' = Response("evs", 0, 0, 200, 0, <<>>)
  /\ UNCHANGED <<tasks, busVars, concVars>>

\* POST /journey
RequestJourney(group) ==
  LET r == AssignVehicleToGroup(vehicles, group)
  IN  IF r.assigned
        THEN /\ BagCardinality(tasks (+) r.spawned) <= MaxTasks
             /\ vehicles' = r.vehicles
             /\ tasks' = tasks (+) r.spawned
             /\ groupToCar' = MapPut(groupToCar, group.ID, r.carID)
             /\ seated' = MapPut(seated, group.ID, group.People)
             /\ last' = Response("journey", group.ID, group.People, 200, r.carID, vehicles)
             /\ UNCHANGED <<groupsQueue, registered, busVars, concVars>>
        ELSE /\ Len(groupsQueue) < MaxQueue
             /\ groupsQueue' = AddGroup(groupsQueue, group)
             /\ last' = Response("journey", group.ID, group.People, 202, 0, vehicles)
             /\ UNCHANGED <<vehicles, groupToCar, tasks, registered, seated, busVars, concVars>>

\* DropOff with the delete from the table forgotten
DropOff_KeepsAssignment(id) ==
  IF id \in DOMAIN groupToCar
    THEN LET carID == groupToCar[id]
             group == FindGroup(groupsQueue, id).group
         IN  /\ vehicles' = ReleaseVehicleSeats(vehicles, carID, group.People)
             /\ last' = Response("dropoff", id, 0, 200, 0, <<>>)
             /\ UNCHANGED <<groupsQueue, groupToCar, seated, tasks, registered, busVars, concVars>>
    ELSE /\ last' = Response("dropoff", id, 0, 404, 0, <<>>)
         /\ UNCHANGED <<vehicles, groupsQueue, groupToCar, tasks, registered, seated, busVars, concVars>>

\* DropOff that, finding no assignment, removes the group from the waiting queue
DropOff_RemovesWaiting(id) ==
  IF id \in DOMAIN groupToCar
    THEN LET carID == groupToCar[id]
             group == FindGroup(groupsQueue, id).group
         IN  /\ vehicles' = ReleaseVehicleSeats(vehicles, carID, group.People)
             /\ groupToCar' = MapDelete(groupToCar, id)
             /\ seated' = MapDelete(seated, id)
             /\ last' = Response("dropoff", id, 0, 200, 0, <<>>)
             /\ UNCHANGED <<groupsQueue, tasks, registered, busVars, concVars>>
    ELSE /\ groupsQueue' = RemoveGroup(groupsQueue, groupToCar, id).queue
         /\ last' = Response("dropoff", id, 0, 404, 0, <<>>)
         /\ UNCHANGED <<vehicles, groupToCar, tasks, registered, seated, busVars, concVars>>

\* DropOff that, after releasing the seats, seats the head of the waiting queue
DropOff_Promotes(id) ==
  IF id \in DOMAIN groupToCar
    THEN LET carID == groupToCar[id]
             group == FindGroup(groupsQueue, id).group
             next == GetNextWaitingGroup(groupsQueue)
         IN  /\ vehicles' = ReleaseVehicleSeats(vehicles, carID, group.People)
             /\ groupToCar' = IF next.found
                                THEN MapPut(MapDelete(groupToCar, id), next.group.ID, carID)
                                ELSE MapDelete(groupToCar, id)
             /\ seated' = IF next.found
                            THEN MapPut(MapDelete(seated, id), next.group.ID, next.group.People)
                            ELSE MapDelete(seated, id)
             /\ groupsQueue' = IF next.found THEN Tail(groupsQueue) ELSE groupsQueue
             /\ last' = Response("dropoff", id, 0, 200, 0, <<>>)
             /\ UNCHANGED <<tasks, registered, busVars, concVars>>
    ELSE /\ last' = Response("dropoff", id, 0, 404, 0, <<>>)
         /\ UNCHANGED <<vehicles, groupsQueue, groupToCar, tasks, registered, seated, busVars, concVars>>

\* POST /dropoff
DropOff(id) ==
  IF id \in DOMAIN groupToCar
    THEN LET carID == groupToCar[id]
             group == FindGroup(groupsQueue, id).group
         IN  /\ vehicles' = ReleaseVehicleSeats(vehicles, carID, group.People)
             /\ groupToCar' = MapDelete(groupToCar, id)
             /\ seated' = MapDelete(seated, id)
             /\ last' = Response("dropoff", id, 0, 200, 0, <<>>)
             /\ UNCHANGED <<groupsQueue, tasks, registered, busVars, concVars>>
    ELSE /\ last' = Response("dropoff", id, 0, 404, 0, <<>>)
         /\ UNCHANGED <<vehicles, groupsQueue, groupToCar, tasks, registered, seated, busVars, concVars>>

\* LocateGroup that also answers for a group found in the waiting queue
LocateGroup_FindsWaiting(id) ==
  /\ last' = IF id \in DOMAIN groupToCar
               THEN Response("locate", id, 0, 200, groupToCar[id], <<>>)
               ELSE IF FindGroup(groupsQueue, id).found
                      THEN Response("locate", id, 0, 200, 0, <<>>)
                      ELSE Response("locate", id, 0, 204, 0, <<>>)
  /\ UNCHANGED <<vehicles, groupsQueue, groupToCar, tasks, registered, seated, busVars, concVars>>

\* POST /locate
LocateGroup(id) ==
  /\ last' = IF id \in DOMAIN groupToCar
               THEN Response("locate", id, 0, 200, groupToCar[id], <<>>)
               ELSE Response("locate", id, 0, 204, 0, <<>>)
  /\ UNCHANGED <<vehicles, groupsQueue, groupToCar, tasks, registered, seated, busVars, concVars>>

\* a spawned listener goroutine runs: the listener of main() logs the assignment
RunListener(t) ==
  /\ BagIn(t, tasks)
  /\ tasks' = tasks (-) SetToBag({t})
  /\ UNCHANGED <<vehicles, groupsQueue, groupToCar, registered, seated, last, busVars, concVars>>

Next ==
  \/ Status
  \/ \E op \in {"evs", "journey", "dropoff", "locate"} : InvalidPayload(op)
  \/ \E f \in Fleets : RegisterFleet(f)
  \/ \E g \in Groups : RequestJourney(g)
  \/ \E id \in GroupIDs : DropOff(id)
  \/ \E id \in GroupIDs : LocateGroup(id)
  \/ \E t \in BagToSet(tasks) : RunListener(t)

Spec == Init /\ [][Next]_vars

(* --------------------- the event bus driven on its own ---------------- *)
\* event types Register and Emit are called with
EventTypes == {"VehicleAssigned", "VehicleReleased"}

\* the listeners of the source
Listeners == {"logAssigned", "logChecked"}

\* the Data values the source emits
Payloads == {AssignedData(1, 1), StartedData(1, 1)}

\* number of listeners registered on the bus
Registered ==
  Cardinality({x \in (DOMAIN eb_listeners) \X (1..MaxListeners) :
                 x[2] \in DOMAIN eb_listeners[x[1]]})

\* eventBus.Register(eventType, listener)
BusRegister(eventType, listener) ==
  /\ ~crashed
  /\ Registered < MaxListeners
  /\ eb_listeners' = Register(eb_listeners, eventType, listener)
  /\ UNCHANGED <<goroutines, handled, emissions, crashed>>
  /\ UNCHANGED <<vehicles, groupsQueue, groupToCar, tasks, registered, seated, last, concVars>>

\* eventBus.Emit(Event{Type: eventType, Data: data}): the goroutines are started
\* and Emit returns; seq numbers the emission
BusEmit(eventType, data) ==
  /\ ~crashed
  /\ Len(emissions) < MaxEmits
  /\ LET event == [Type |-> eventType, Data |-> data, seq |-> Len(emissions) + 1]
     IN  /\ goroutines' = goroutines \cup Spawn(eb_listeners, event)
         /\ emissions' = Append(emissions, [event |-> event, listeners |-> eb_listeners])
  /\ UNCHANGED <<eb_listeners, handled, crashed>>
  /\ UNCHANGED <<vehicles, groupsQueue, groupToCar, tasks, registered, seated, last, concVars>>

\* the scheduler runs one spawned goroutine: go handler(event). Emit defers no
\* recover, so a panic of the handler terminates the process
RunHandler(t) ==
  /\ ~crashed
  /\ t \in goroutines
  /\ goroutines' = goroutines \ {t}
  /\ handled' = Append(handled, t)
  /\ crashed' = (Handle(t.handler, t.event) = "panic")
  /\ UNCHANGED <<eb_listeners, emissions>>
  /\ UNCHANGED <<vehicles, groupsQueue, groupToCar, tasks, registered, seated, last, concVars>>

NextBus ==
  \/ \E t \in EventTypes, l \in Listeners : BusRegister(t, l)
  \/ \E t \in EventTypes, d \in Payloads : BusEmit(t, d)
  \/ \E t \in goroutines : RunHandler(t)

SpecBus == Init /\ [][NextBus]_vars

(* -------------------- requests served concurrently -------------------- *)
\* inflight with worker w at position pc and the given locals changed
Goto(w, pc, locals) ==
  [inflight EXCEPT ![w] = [f \in DOMAIN IdleWorker |->
     IF f = "pc" THEN pc
     ELSE IF f \in DOMAIN locals THEN locals[f] ELSE inflight[w][f]]]

\* the slice the local variable `vehicles` of AssignVehicleToGroup refers to:
\* the repository's slice, or the one it was before a SaveVehicles replaced it
View(w) == IF inflight[w].alias THEN vehicles ELSE inflight[w].view

\* POST /journey arrives; AssignVehicleToGroup: vehicles := GetAllVehicles()
StartJourney(w, group) ==
  /\ inflight[w].pc = "idle"
  /\ started < MaxRequests
  /\ started' = started + 1
  /\ inflight' = Goto(w, "scan", [group |-> group, alias |-> TRUE, i |-> 1])
  /\ UNCHANGED <<vehicles, groupsQueue, groupToCar, tasks, registered, seated, last, busVars>>

\* Scan that takes the seats in the same step as the capacity check
Scan_Reserves(w) ==
  /\ inflight[w].pc = "scan"
  /\ LET me == inflight[w]
         vs == View(w)
     IN  IF me.i > Len(vs)
           THEN inflight' = Goto(w, "enqueue", <<>>) /\ UNCHANGED vehicles
           ELSE IF vs[me.i].Seats >= me.group.People
                  THEN /\ inflight' = Goto(w, "record", [carID |-> vs[me.i].ID])
                       /\ vehicles' = UpdateVehicleSeats(vehicles, vs[me.i].ID,
                                                         vs[me.i].Seats - me.group.People)
                  ELSE inflight' = Goto(w, "scan", [i |-> me.i + 1]) /\ UNCHANGED vehicles
  /\ UNCHANGED <<groupsQueue, groupToCar, tasks, registered, seated, last, started, busVars>>

\* for i := range vehicles { if vehicles[i].Seats >= group.People {...} }: one
\* capacity check; past the last vehicle the service returns (0, false)
Scan(w) ==
  /\ inflight[w].pc = "scan"
  /\ LET me == inflight[w]
         vs == View(w)
     IN  IF me.i > Len(vs)
           THEN inflight' = Goto(w, "enqueue", <<>>)
           ELSE IF vs[me.i].Seats >= me.group.People
                  THEN inflight' = Goto(w, "compute", <<>>)
                  ELSE inflight' = Goto(w, "scan", [i |-> me.i + 1])
  /\ UNCHANGED <<vehicles, groupsQueue, groupToCar, tasks, registered, seated, last, started, busVars>>

\* the arguments of the call: vehicles[i].ID, vehicles[i].Seats - group.People
Compute(w) ==
  /\ inflight[w].pc = "compute"
  /\ LET me == inflight[w]
         vs == View(w)
     IN  inflight' = Goto(w, "update", [carID |-> vs[me.i].ID,
                                        seats |-> vs[me.i].Seats - me.group.People])
  /\ UNCHANGED <<vehicles, groupsQueue, groupToCar, tasks, registered, seated, last, started, busVars>>

\* UpdateVehicleSeats on the repository's slice, Emit, return (vehicles[i].ID, true)
Update(w) ==
  /\ inflight[w].pc = "update"
  /\ LET me == inflight[w]
     IN  /\ vehicles' = UpdateVehicleSeats(vehicles, me.carID, me.seats)
         /\ tasks' = tasks (+) Emit([Type |-> "VehicleAssigned",
                                     group_id |-> me.group.ID, vehicle_id |-> View(w)[me.i].ID])
         /\ inflight' = Goto(w, "record", [carID |-> View(w)[me.i].ID])
  /\ UNCHANGED <<groupsQueue, groupToCar, registered, seated, last, started, busVars>>

\* groupRepo.groupToCar[group.ID] = carID and the 200 response
Record(w) ==
  /\ inflight[w].pc = "record"
  /\ LET me == inflight[w]
     IN  /\ groupToCar' = MapPut(groupToCar, me.group.ID, me.carID)
         /\ seated' = MapPut(seated, me.group.ID, me.group.People)
         /\ last' = Response("journey", me.group.ID, me.group.People, 200, me.carID, <<>>)
  /\ inflight' = [inflight EXCEPT ![w] = IdleWorker]
  /\ UNCHANGED <<vehicles, groupsQueue, tasks, registered, started, busVars>>

\* groupRepo.AddGroup(group) and the 202 response
Enqueue(w) ==
  /\ inflight[w].pc = "enqueue"
  /\ LET me == inflight[w]
     IN  /\ groupsQueue' = AddGroup(groupsQueue, me.group)
         /\ last' = Response("journey", me.group.ID, me.group.People, 202, 0, <<>>)
  /\ inflight' = [inflight EXCEPT ![w] = IdleWorker]
  /\ UNCHANGED <<vehicles, groupToCar, tasks, registered, seated, started, busVars>>

\* PUT /evs arrives with a list that binds
StartRegister(w, newVehicles) ==
  /\ inflight[w].pc = "idle"
  /\ started < MaxRequests
  /\ started' = started + 1
  /\ inflight' = Goto(w, "save", [fleet |-> newVehicles])
  /\ UNCHANGED <<vehicles, groupsQueue, groupToCar, tasks, registered, seated, last, busVars>>

\* vehicleRepo.SaveVehicles(newVehicles): the repository gets a new slice; the
\* slices other requests got from GetAllVehicles keep the old array
Save(w) ==
  /\ inflight[w].pc = "save"
  /\ vehicles' = inflight[w].fleet
  /\ registered' = inflight[w].fleet
  /\ inflight' = [x \in Workers |->
       IF x = w THEN [inflight[w] EXCEPT !.pc = "clearQueue"]
       ELSE IF inflight[x].alias
              THEN [inflight[x] EXCEPT !.alias = FALSE, !.view = vehicles]
              ELSE inflight[x]]
  /\ UNCHANGED <<groupsQueue, groupToCar, tasks, seated, last, started, busVars>>

\* groupRepo.groupsQueue = []Group{}
ClearQueue(w) ==
  /\ inflight[w].pc = "clearQueue"
  /\ groupsQueue' = <<>>
  /\ inflight' = Goto(w, "clearTable", <<>>)
  /\ UNCHANGED <<vehicles, groupToCar, tasks, registered, seated, last, started, busVars>>

\* groupRepo.groupToCar = make(map[int]int) and the 200 response
ClearTable(w) ==
  /\ inflight[w].pc = "clearTable"
  /\ groupToCar' = EmptyMap
  /\ seated' = EmptyMap
  /\ last' = Response("evs", 0, 0, 200, 0, <<>>)
  /\ inflight' = [inflight EXCEPT ![w] = IdleWorker]
  /\ UNCHANGED <<vehicles, groupsQueue, tasks, registered, started, busVars>>

NextConc ==
  \/ \E w \in Workers, g \in Groups : StartJourney(w, g)
  \/ \E w \in Workers : Scan(w)
  \/ \E w \in Workers : Compute(w)
  \/ \E w \in Workers : Update(w)
  \/ \E w \in Workers : Record(w)
  \/ \E w \in Workers : Enqueue(w)
  \/ \E w \in Workers, f \in Fleets : StartRegister(w, f)
  \/ \E w \in Workers : Save(w)
  \/ \E w \in Workers : ClearQueue(w)
  \/ \E w \in Workers : ClearTable(w)
  \/ \E t \in BagToSet(tasks) : RunListener(t)

SpecConc == Init /\ [][NextConc]_vars

(* ------------------ the group repository driven on its own ----------- *)
\* groupRepo.AddGroup(group)
RepoAddGroup(group) ==
  /\ Len(groupsQueue) < MaxQueue
  /\ groupsQueue' = AddGroup(groupsQueue, group)
  /\ last' = Response("AddGroup", group.ID, group.People, 0, 0, <<>>)
  /\ UNCHANGED <<vehicles, groupToCar, tasks, registered, seated, busVars, concVars>>

\* groupRepo.groupToCar[groupID] = carID
RepoAssign(groupID, carID) ==
  /\ groupToCar' = MapPut(groupToCar, groupID, carID)
  /\ last' = Response("groupToCar", groupID, 0, 0, carID, <<>>)
  /\ UNCHANGED <<vehicles, groupsQueue, tasks, registered, seated, busVars, concVars>>

\* groupRepo.RemoveGroup(groupID); status 1 records the result true, 0 false
RepoRemoveGroup(groupID) ==
  LET r == RemoveGroup(groupsQueue, groupToCar, groupID)
  IN  /\ groupsQueue' = r.queue
      /\ groupToCar' = r.table
      /\ last' = Response("RemoveGroup", groupID, 0, IF r.removed THEN 1 ELSE 0, 0, <<>>)
      /\ UNCHANGED <<vehicles, tasks, registered, seated, busVars, concVars>>

NextRepo ==
  \/ \E g \in Groups : RepoAddGroup(g)
  \/ \E id \in GroupIDs, v \in VehicleIDs : RepoAssign(id, v)
  \/ \E id \in GroupIDs : RepoRemoveGroup(id)

SpecRepo == Init /\ [][NextRepo]_vars

(* ------------------------- helpers of the claims ---------------------- *)
\* indices of the vehicles of vs that can take that many people
Fitting(vs, people) == {i \in DOMAIN vs : vs[i].Seats >= people}

\* the smallest element of a non-empty set of indices
MinOf(S) == CHOOSE i \in S : \A j \in S : i <= j

\* the groups the table maps to that car
RidersOf(carID) == {g \in DOMAIN groupToCar : groupToCar[g] = carID}

RECURSIVE SumSeated(_)
\* people seated by the assignments of the groups in S
SumSeated(S) ==
  IF S = {} THEN 0
  ELSE LET g == CHOOSE x \in S : TRUE IN seated[g] + SumSeated(S \ {g})

\* the group id is in the waiting queue
Waiting(id) == \E i \in DOMAIN groupsQueue : groupsQueue[i].ID = id

\* the group id is in the assignment table
Riding(id) == id \in DOMAIN groupToCar

(* ------------------------------- claims ------------------------------- *)
\* C1: a RequestJourney that assigns group g, followed at once by DropOff(g):
\* the drop-off succeeds and the inventory is again what the RequestJourney found.
C1_AssignThenDropOffRestores ==
  [][(/\ last.op = "journey" /\ last.status = 200
      /\ DropOff(last.id))
     => (last'.status = 200 /\ vehicles' = last.pre)]_vars

C3_SeatsWithinCapacity ==
  \A i \in DOMAIN vehicles :
    /\ vehicles[i].Seats >= 0
    /\ vehicles[i].Seats <= registered[i].Seats

\* C4: for every vehicle, the people of the groups the table maps to it (each
\* with the people count of the journey that created the assignment) do not
\* exceed its registered capacity.
C4_RidersWithinCapacity ==
  \A i \in DOMAIN vehicles :
    SumSeated(RidersOf(vehicles[i].ID)) <= registered[i].Seats

\* C5: no group id is in the waiting queue and in the assignment table at once.
C5_WaitingXorRiding ==
  \A id \in GroupIDs : ~(Waiting(id) /\ Riding(id))

\* C6: no group id appears twice in the waiting queue.
C6_QueueIdsDistinct ==
  \A i, j \in DOMAIN groupsQueue :
    groupsQueue[i].ID = groupsQueue[j].ID => i = j

\* C7: a RequestJourney for a group that fits no vehicle answers 202, leaves
\* every vehicle's seats as they were, appends the group to the tail of the
\* waiting queue (where FindGroup finds it), and afterwards the group id is not
\* in the assignment table.
C7_NoFitQueues ==
  [][\A g \in Groups :
       (last'.op = "journey" /\ RequestJourney(g) /\ Fitting(vehicles, g.People) = {})
       => /\ last'.status = 202
          /\ vehicles' = vehicles
          /\ groupsQueue' = Append(groupsQueue, g)
          /\ FindGroup(groupsQueue', g.ID).found
          /\ ~(g.ID \in DOMAIN groupToCar')]_vars

\* C8: DropOff of a riding group answers 200 and removes the assignment; from
\* then on LocateGroup of that id answers 204 and DropOff of it answers 404,
\* and the id comes back into the table only by a RequestJourney that assigns it.
C8_DropOffRemovesAssignment ==
  [][\A id \in GroupIDs :
       /\ (last'.op = "dropoff" /\ DropOff(id) /\ Riding(id))
            => (last'.status = 200 /\ ~(id \in DOMAIN groupToCar'))
       /\ (last.op = "dropoff" /\ last.status = 200 /\ last.id = id)
            => /\ ~Riding(id)
               /\ (last'.op = "locate" /\ LocateGroup(id)) => last'.status = 204
               /\ (last'.op = "dropoff" /\ DropOff(id)) => last'.status = 404
       /\ (~Riding(id) /\ id \in DOMAIN groupToCar')
            => \E p \in PeopleCounts :
                 RequestJourney(Group(id, p)) /\ last'.status = 200]_vars

\* C8 witness: a drop-off has just succeeded while another group is still riding.
C8_Witness ==
  /\ last.op = "dropoff" /\ last.status = 200
  /\ ~Riding(last.id)
  /\ groupToCar # EmptyMap

\* C9: DropOff of an id that is not in the assignment table answers 404 and
\* leaves the inventory, the waiting queue and the assignment table unchanged.
C9_DropOffUnknown ==
  [][\A id \in GroupIDs :
       (last'.op = "dropoff" /\ DropOff(id) /\ ~Riding(id))
       => /\ last'.status = 404
          /\ UNCHANGED <<vehicles, groupsQueue, groupToCar>>]_vars

\* C9 witness: a drop-off of a group that is only waiting has answered 404, and
\* the group is still waiting while another group rides.
C9_Witness ==
  /\ last.op = "dropoff" /\ last.status = 404
  /\ Waiting(last.id)
  /\ groupToCar # EmptyMap

\* C10: whatever the state before, once RegisterFleet(L) has answered the
\* inventory is exactly L (registered holds L), the waiting queue is empty and
\* the assignment table is empty.
C10_RegisterFleetResets ==
  (last.op = "evs" /\ last.status = 200)
  => /\ vehicles = registered
     /\ groupsQueue = <<>>
     /\ groupToCar = EmptyMap

\* C10 witness: a fleet of two vehicles has just been registered after an
\* earlier fleet had served a journey (its listener goroutine is still pending).
C10_Witness ==
  /\ last.op = "evs" /\ last.status = 200
  /\ Len(vehicles) = 2
  /\ vehicles = registered
  /\ groupsQueue = <<>> /\ groupToCar = EmptyMap
  /\ tasks # EmptyBag

\* C11: no automatic promotion. A DropOff leaves the waiting queue as it was and
\* adds no entry to the assignment table, so every group that was waiting and
\* not riding is still waiting and not riding after it, and LocateGroup of such
\* a group answers 204.
C11_NoPromotion ==
  [][\A id \in GroupIDs :
       /\ (last'.op = "dropoff" /\ DropOff(id))
            => /\ groupsQueue' = groupsQueue
               /\ (DOMAIN groupToCar') \subseteq (DOMAIN groupToCar)
               /\ \A g \in GroupIDs :
                    (Waiting(g) /\ ~Riding(g))
                    => /\ \E i \in DOMAIN groupsQueue' : groupsQueue'[i].ID = g
                       /\ ~(g \in DOMAIN groupToCar')
       /\ (last'.op = "locate" /\ LocateGroup(id) /\ Waiting(id) /\ ~Riding(id))
            => (last'.status = 204 /\ ~(id \in DOMAIN groupToCar'))]_vars

\* C11 witness: a drop-off has just succeeded and left a vehicle with seats for
\* a group that is waiting and not riding.
C11_Witness ==
  /\ last.op = "dropoff" /\ last.status = 200
  /\ \E i \in DOMAIN groupsQueue :
       /\ ~Riding(groupsQueue[i].ID)
       /\ Fitting(vehicles, groupsQueue[i].People) # {}

\* C12: LocateGroup(g) answers 200 with car v exactly when the table maps g to
\* v, answers 204 otherwise (a waiting group included), and leaves inventory,
\* waiting queue and assignment table unchanged.
C12_Locate ==
  [][\A id \in GroupIDs :
       (last'.op = "locate" /\ LocateGroup(id))
       => /\ Riding(id) => (last'.status = 200 /\ last'.car = groupToCar[id])
          /\ ~Riding(id) => (last'.status = 204 /\ last'.car = 0)
          /\ last'.status \in {200, 204}
          /\ UNCHANGED <<vehicles, groupsQueue, groupToCar>>]_vars

\* C12 witness: LocateGroup of a group that is only waiting has answered 204
\* while another group rides.
C12_Witness ==
  /\ last.op = "locate" /\ last.status = 204
  /\ Waiting(last.id) /\ ~Riding(last.id)
  /\ groupToCar # EmptyMap

\* C13: a failing subscriber is contained. No handler spawned by Emit ever
\* terminates the process, so the emitter's result and mutation stand and later
\* operations are still served.
C13_SubscriberFailureContained == ~crashed

\* C14: with RequestJourney calls for different groups served concurrently on
\* the shared inventory, no vehicle's remaining seats is ever negative.
C14_SeatsNeverNegative ==
  \A i \in DOMAIN vehicles : vehicles[i].Seats >= 0

\* C15: the scan-then-decrement is not atomic. The capacity check of a scan
\* step takes nothing: even when it hits it leaves the inventory as it was, and
\* the seats are written only by the later UpdateVehicleSeats step, with the
\* value computed before it; so a second request can pass the check on the
\* same vehicle in between (the witness: both assigned, vehicle overbooked).
C15_ScanThenDecrementNotAtomic ==
  [][/\ \A w \in Workers :
          /\ (inflight[w].pc = "scan" /\ Scan(w)) => vehicles' = vehicles
          /\ (inflight[w].pc = "update" /\ Update(w))
               => vehicles' = UpdateVehicleSeats(vehicles, inflight[w].carID,
                                                 inflight[w].seats)
     /\ (vehicles' # vehicles)
          => \E w \in Workers : \/ (inflight[w].pc = "update" /\ Update(w))
                                \/ (inflight[w].pc = "save" /\ Save(w))]_vars

\* C15 witness: two requests for different groups, looking at the same fleet
\* with nobody riding, have both passed the check on the same vehicle, both
\* written their decrement and both been given that vehicle, and their people
\* together exceed the seats the vehicle had.
C15_Witness ==
  \E w, x \in Workers :
    /\ w # x
    /\ inflight[w].pc = "record" /\ inflight[x].pc = "record"
    /\ inflight[w].alias /\ inflight[x].alias
    /\ inflight[w].group.ID # inflight[x].group.ID
    /\ inflight[w].i = inflight[x].i
    /\ inflight[w].carID = inflight[x].carID
    /\ groupToCar = EmptyMap
    /\ inflight[w].group.People + inflight[x].group.People
         > registered[inflight[w].i].Seats

\* C16: per-subscriber delivery order equals emission order. Of two events of
\* the same type emitted one after the other, every listener registered under
\* that type handles the earlier one first.
C16_DeliveryInEmissionOrder ==
  \A a, b \in DOMAIN handled :
    (/\ a < b
     /\ handled[a].event.Type = handled[b].event.Type
     /\ handled[a].slot = handled[b].slot)
    => handled[a].event.seq < handled[b].event.seq

\* the number of calls made of goroutine t
Calls(t) == Cardinality({k \in DOMAIN handled : handled[k] = t})

\* C17: every emission is delivered to all subscribers of its type. In every
\* state each listener registered under the event's type when Emit was called
\* has been called exactly once with the event, or its call is still to come
\* in a live process; nothing else is ever called with the event.
C17_EveryEmissionDelivered ==
  \A k \in DOMAIN emissions :
    LET e == emissions[k].event
        ls == emissions[k].listeners
        due == IF e.Type \in DOMAIN ls THEN DOMAIN ls[e.Type] ELSE {}
    IN  /\ \A i \in due :
             LET t == [slot |-> i, handler |-> ls[e.Type][i], event |-> e]
             IN  \/ (t \in goroutines /\ ~crashed /\ Calls(t) = 0)
                 \/ (~(t \in goroutines) /\ Calls(t) = 1)
        /\ \A t \in goroutines \cup {handled[j] : j \in DOMAIN handled} :
             t.event = e => (t.slot \in due /\ t.handler = ls[e.Type][t.slot])

\* C18: drop-off destroys a group in whichever structure holds it. DropOff(g)
\* of a group that is in the waiting queue and not riding takes g's entry out
\* of the waiting queue.
C18_DropOffRemovesWaiting ==
  [][\A id \in GroupIDs :
       (last'.op = "dropoff" /\ DropOff(id) /\ Waiting(id) /\ ~Riding(id))
       => /\ groupsQueue' # groupsQueue
          /\ Len(groupsQueue') = Len(groupsQueue) - 1]_vars

\* C19: RemoveGroup touches only the waiting queue. If the id is queued the
\* first entry with that id is cut out, the other entries keep their order and
\* the result is true; if not, the queue is left as it was and the result is
\* false; in both cases the assignment table is left unchanged.
C19_RemoveGroupOnlyQueue ==
  [][\A id \in GroupIDs :
       (last'.op = "RemoveGroup" /\ RepoRemoveGroup(id))
       => /\ groupToCar' = groupToCar
          /\ Waiting(id)
               => LET k == MinOf({j \in DOMAIN groupsQueue : groupsQueue[j].ID = id})
                  IN  /\ last'.status = 1
                      /\ groupsQueue' = [j \in 1..(Len(groupsQueue) - 1) |->
                                           IF j < k THEN groupsQueue[j]
                                                    ELSE groupsQueue[j + 1]]
          /\ ~Waiting(id)
               => (last'.status = 0 /\ groupsQueue' = groupsQueue)]_vars

\* C20: whenever no request is in flight, every vehicle id in the assignment
\* table is the id of a vehicle of the current fleet, also after a
\* RegisterFleet served between the steps of a RequestJourney.
C20_AssignmentsInCurrentFleet ==
  (\A w \in Workers : inflight[w].pc = "idle")
  => \A g \in DOMAIN groupToCar :
       \E i \in DOMAIN vehicles : vehicles[i].ID = groupToCar[g]

====
